---- MODULE Spec2Model ----
(***************************************************************************)
(* Model of ChatbotService (src/app/chatbot_service.py): the two session   *)
(* maps, generate_response split at its external model calls, and          *)
(* clear_session.  Text is a sequence of strings, one character each       *)
(* wherever the code looks at characters; a JSON value is a one-field      *)
(* record tagged by its Python type.                                       *)
(***************************************************************************)
EXTENDS Integers, Sequences, FiniteSets, TLC

\* ------------------------------------------------------------------ bounds

\* generate_response calls started in one behaviour of Spec
MaxCalls == 2
\* identifiers uuid4 can hand out in one behaviour
MaxUuids == 1
\* generate_response calls started in one behaviour of SpecWords
MaxWordCalls == 3
\* generate_response calls started in one behaviour of SpecLong
MaxLongCalls == 6
\* generate_response calls started in one behaviour of SpecScore
MaxScoreCalls == 3
\* generate_response calls started in one behaviour of SpecConc
MaxConcCalls == 3

\* ------------------------------------------------------------------ text

Max(a, b) == IF a > b THEN a ELSE b

\* str.lower() on the letters the model's messages use
LowerChar(c) ==
    CASE c = "A" -> "a" [] c = "B" -> "b" [] c = "C" -> "c" [] c = "D" -> "d"
      [] c = "E" -> "e" [] c = "F" -> "f" [] c = "G" -> "g" [] c = "H" -> "h"
      [] c = "I" -> "i" [] c = "J" -> "j" [] c = "K" -> "k" [] c = "L" -> "l"
      [] c = "M" -> "m" [] c = "N" -> "n" [] c = "O" -> "o" [] c = "P" -> "p"
      [] c = "Q" -> "q" [] c = "R" -> "r" [] c = "S" -> "s" [] c = "T" -> "t"
      [] c = "U" -> "u" [] c = "V" -> "v" [] c = "W" -> "w" [] c = "X" -> "x"
      [] c = "Y" -> "y" [] c = "Z" -> "z" [] c = "É" -> "é"
      [] OTHER -> c

Lower(s) == [i \in 1..Len(s) |-> LowerChar(s[i])]

\* the list ["fin du débat", "fin", "score"] of lines 93 and 98
TerminalPhrases ==
    { <<"f","i","n"," ","d","u"," ","d","é","b","a","t">>,
      <<"f","i","n">>,
      <<"s","c","o","r","e">> }

\* message.lower() in ["fin du débat", "fin", "score"]
IsTerminal(message) == Lower(message) \in TerminalPhrases

\* ------------------------------------------------------------------ json.loads

Whitespace == {" ", "\n", "\t", "\r"}
Digits == {"0", "1", "2", "3", "4", "5", "6", "7", "8", "9"}

DigitValue(c) ==
    CASE c = "0" -> 0 [] c = "1" -> 1 [] c = "2" -> 2 [] c = "3" -> 3
      [] c = "4" -> 4 [] c = "5" -> 5 [] c = "6" -> 6 [] c = "7" -> 7
      [] c = "8" -> 8 [] c = "9" -> 9

RECURSIVE SkipWs(_, _)
SkipWs(s, i) ==
    IF i <= Len(s) /\ s[i] \in Whitespace THEN SkipWs(s, i + 1) ELSE i

\* s[i..] starts with the characters of lit
StartsWith(s, i, lit) ==
    /\ i + Len(lit) - 1 <= Len(s)
    /\ \A k \in 1..Len(lit) : s[i + k - 1] = lit[k]

ParseFail == [ok |-> FALSE, val |-> [null |-> TRUE], pos |-> 0]
ParseOk(v, p) == [ok |-> TRUE, val |-> v, pos |-> p]

\* the index of the closing quote of the string whose first character is at i
\* (0 when there is none); the model's texts hold no backslash escape
RECURSIVE CloseQuote(_, _)
CloseQuote(s, i) ==
    IF i > Len(s) THEN 0
    ELSE IF s[i] = "\"" THEN i
    ELSE IF s[i] = "\\" \/ s[i] = "\n" THEN 0
    ELSE CloseQuote(s, i + 1)

\* a string literal whose opening quote is at i
ParseString(s, i) ==
    LET j == CloseQuote(s, i + 1)
    IN  IF j = 0 THEN ParseFail
        ELSE ParseOk([str |-> SubSeq(s, i + 1, j - 1)], j + 1)

RECURSIVE DigitsEnd(_, _)
DigitsEnd(s, i) ==
    IF i <= Len(s) /\ s[i] \in Digits THEN DigitsEnd(s, i + 1) ELSE i

RECURSIVE DigitsValue(_, _, _, _)
DigitsValue(s, i, j, acc) ==
    IF i >= j THEN acc ELSE DigitsValue(s, i + 1, j, acc * 10 + DigitValue(s[i]))

\* an integer literal -?(0|[1-9][0-9]*); a fraction or exponent (a Python
\* float) is outside the model's texts
ParseNumber(s, i) ==
    LET neg == i <= Len(s) /\ s[i] = "-"
        b   == IF neg THEN i + 1 ELSE i
        e0  == DigitsEnd(s, b)
        e   == IF b <= Len(s) /\ s[b] = "0" THEN b + 1 ELSE e0
        n   == DigitsValue(s, b, e, 0)
    IN  IF e = b THEN ParseFail
        ELSE IF e <= Len(s) /\ s[e] \in {".", "e", "E"} THEN ParseFail
        ELSE ParseOk([num |-> IF neg THEN 0 - n ELSE n], e)

\* dict[key] = value: a repeated key keeps its last value
DictSet(d, k, v) == [x \in DOMAIN d \cup {k} |-> IF x = k THEN v ELSE d[x]]

EmptyDict == [x \in {} |-> 0]

RECURSIVE ParseValue(_, _)
RECURSIVE ParseMembers(_, _, _)
RECURSIVE ParseElements(_, _, _)

\* the value that starts at i (no leading whitespace)
ParseValue(s, i) ==
    IF i > Len(s) THEN ParseFail
    ELSE IF s[i] = "\"" THEN ParseString(s, i)
    ELSE IF s[i] = "{" THEN
        LET j == SkipWs(s, i + 1)
        IN  IF j <= Len(s) /\ s[j] = "}" THEN ParseOk([obj |-> EmptyDict], j + 1)
            ELSE ParseMembers(s, j, EmptyDict)
    ELSE IF s[i] = "[" THEN
        LET j == SkipWs(s, i + 1)
        IN  IF j <= Len(s) /\ s[j] = "]" THEN ParseOk([list |-> <<>>], j + 1)
            ELSE ParseElements(s, j, <<>>)
    ELSE IF StartsWith(s, i, <<"n","u","l","l">>) THEN ParseOk([null |-> TRUE], i + 4)
    ELSE IF StartsWith(s, i, <<"t","r","u","e">>) THEN ParseOk([bool |-> TRUE], i + 4)
    ELSE IF StartsWith(s, i, <<"f","a","l","s","e">>) THEN ParseOk([bool |-> FALSE], i + 5)
    ELSE ParseNumber(s, i)

\* "key": value pairs from i (at a key) to the closing brace
ParseMembers(s, i, d) ==
    IF i > Len(s) \/ s[i] # "\"" THEN ParseFail
    ELSE
      LET k == ParseString(s, i)
      IN  IF ~k.ok THEN ParseFail
          ELSE
            LET c == SkipWs(s, k.pos)
            IN  IF c > Len(s) \/ s[c] # ":" THEN ParseFail
                ELSE
                  LET v == ParseValue(s, SkipWs(s, c + 1))
                  IN  IF ~v.ok THEN ParseFail
                      ELSE
                        LET e  == SkipWs(s, v.pos)
                            d2 == DictSet(d, k.val.str, v.val)
                        IN  IF e > Len(s) THEN ParseFail
                            ELSE IF s[e] = "}" THEN ParseOk([obj |-> d2], e + 1)
                            ELSE IF s[e] = "," THEN ParseMembers(s, SkipWs(s, e + 1), d2)
                            ELSE ParseFail

\* values from i to the closing bracket
ParseElements(s, i, l) ==
    LET v == ParseValue(s, i)
    IN  IF ~v.ok THEN ParseFail
        ELSE
          LET e  == SkipWs(s, v.pos)
              l2 == Append(l, v.val)
          IN  IF e > Len(s) THEN ParseFail
              ELSE IF s[e] = "]" THEN ParseOk([list |-> l2], e + 1)
              ELSE IF s[e] = "," THEN ParseElements(s, SkipWs(s, e + 1), l2)
              ELSE ParseFail

\* json.loads(text): one value with optional whitespace around it, else
\* JSONDecodeError (ok = FALSE)
json_loads(text) ==
    LET v == ParseValue(text, SkipWs(text, 1))
    IN  IF v.ok /\ SkipWs(text, v.pos) = Len(text) + 1 THEN v ELSE ParseFail

\* ------------------------------------------------------------------ _build_context

\* the slice [-10:] of line 135
ContextTurns == 10

\* seq[:n], the first turns instead of the last
FirstN(seq, n) == SubSeq(seq, 1, IF Len(seq) < n THEN Len(seq) ELSE n)

\* seq[-n:]
LastN(seq, n) == SubSeq(seq, Max(1, Len(seq) - n + 1), Len(seq))

\* dict.get(key, default)
Get(d, k, default) == IF k \in DOMAIN d THEN d[k] ELSE default

\* f"{role}: {msg['content']}\n"
RenderTurn(msg) ==
    <<(IF msg.role = "user" THEN "User" ELSE "Assistant"), ": ">>
        \o msg.content \o <<"\n">>

\* the for loop of lines 138-140, from turn i on
RECURSIVE RenderFrom(_, _, _)
RenderFrom(history, i, context) ==
    IF i > Len(history) THEN context
    ELSE RenderFrom(history, i + 1, context \o RenderTurn(history[i]))

_build_context(sess, session_id) ==
    RenderFrom(LastN(Get(sess, session_id, <<>>), ContextTurns), 1, <<>>)

\* ------------------------------------------------------------------ prompts

SystemPrompt == "Tu es DebateMaster, un expert en argumentation et en débats. [...]"

\* the f-string of lines 109-114
FullPrompt(mode, context, message) ==
    <<SystemPrompt, "\n\n", "MODE ACTUEL : ", mode, "\n\n">>
        \o context \o <<"\n", "Utilisateur : ">> \o message

\* the f-string of lines 150-162
EvalPrompt(message) ==
    <<"Analyse ce message d'utilisateur pour un débat :\n\nMessage : \"">>
        \o message \o <<"\"\n\nDonne une analyse sous forme de JSON avec : [...]">>

\* ------------------------------------------------------------------ _evaluate_argument

\* lines 166-170 with the text itself as the fallback record
ParseAnalysisBareText(text) ==
    LET v == json_loads(text)
    IN  IF v.ok THEN v.val ELSE [str |-> text]

\* lines 166-170 on the text the model returned
ParseAnalysis(text) ==
    LET v == json_loads(text)
    IN  IF v.ok THEN v.val
        ELSE [obj |-> (<<"r","a","w">> :> [str |-> text])]

\* ------------------------------------------------------------------ _generate_final_score

criteres ==
    << <<"l","o","g","i","q","u","e">>,
       <<"p","r","e","u","v","e","s">>,
       <<"f","o","r","c","e","_","a","r","g","u","m","e","n","t","a","t","i","v","e">>,
       <<"s","t","r","u","c","t","u","r","e">>,
       <<"c","l","a","r","t","e","_","s","t","y","l","e">> >>

AucunArgument == <<"Aucun argument à évaluer.">>
ImpossibleCalcul == <<"Impossible de calculer le score.">>

Tag(v) == CHOOSE t \in DOMAIN v : TRUE

\* Python's  sub in s  on two strings
IsSubstring(sub, s) ==
    \E i \in 1..(Len(s) - Len(sub) + 1) : SubSeq(s, i, i + Len(sub) - 1) = sub

\* critere in ev : "ok" with the answer, or TypeError
Contains(ev, critere) ==
    CASE Tag(ev) = "obj"  -> [ok |-> TRUE, has |-> critere \in DOMAIN ev.obj]
      [] Tag(ev) = "str"  -> [ok |-> TRUE, has |-> IsSubstring(critere, ev.str)]
      [] Tag(ev) = "list" ->
            [ok |-> TRUE,
             has |-> \E k \in 1..Len(ev.list) :
                        Tag(ev.list[k]) = "str" /\ ev.list[k].str = critere]
      [] OTHER -> [ok |-> FALSE, has |-> FALSE]

\* total_score += ev[critere] : the number added, or TypeError
Addend(ev, critere) ==
    IF Tag(ev) # "obj" THEN [ok |-> FALSE, n |-> 0]
    ELSE LET v == ev.obj[critere]
         IN  CASE Tag(v) = "num"  -> [ok |-> TRUE, n |-> v.num]
               [] Tag(v) = "bool" -> [ok |-> TRUE, n |-> IF v.bool THEN 1 ELSE 0]
               [] OTHER -> [ok |-> FALSE, n |-> 0]

\* the loops of lines 192-196 from record i, criterion c on
RECURSIVE Accumulate(_, _, _, _)
Accumulate(evs, i, c, acc) ==
    IF i > Len(evs) THEN acc
    ELSE IF c > Len(criteres) THEN Accumulate(evs, i + 1, 1, acc)
    ELSE
      LET has == Contains(evs[i], criteres[c])
      IN  IF ~has.ok THEN [acc EXCEPT !.ok = FALSE]
          ELSE IF ~has.has THEN Accumulate(evs, i, c + 1, acc)
          ELSE
            LET a == Addend(evs[i], criteres[c])
            IN  IF ~a.ok THEN [acc EXCEPT !.ok = FALSE]
                ELSE Accumulate(evs, i, c + 1,
                        [ok |-> TRUE, total |-> acc.total + a.n,
                         count |-> acc.count + 1])

\* floor division and the remainder in 0..d-1, for d > 0
FloorDiv(n, d) == IF n >= 0 THEN n \div d ELSE 0 - ((0 - n + d - 1) \div d)

\* line 201 with the quotient cut after two decimals instead of rounded
TruncatedScore(total, count) == FloorDiv(total * 500, count)

\* the ties (twice the quotient total * 500 / count, an odd number) at which
\* the float product (total_score / (count * 20)) * 100 lies one ulp off the
\* quotient, so that round(.., 2) leaves the even neighbour for the odd one;
\* computed from the IEEE double arithmetic for every score from 0 to 200
FloatTieDeviations ==
    {2725, 2875, 5075, 5175, 6125, 6225, 6275, 6375, 10675, 10775, 10875,
     10975, 11525, 11625, 11725, 11825, 20075, 20125, 20325, 20525, 21975,
     22175, 22375, 22425, 22575, 22625, 22825, 23025, 24475, 24675, 24875,
     24925, 25075, 25125, 25325, 25525}

\* round((total_score / (count * 20)) * 100, 2) in hundredths: the quotient
\* total * 500 / count rounded to the nearest integer; a tie goes to the even
\* neighbour unless the float product is off the quotient
RoundedScore(total, count) ==
    LET q    == FloorDiv(total * 500, count)
        r    == total * 500 - q * count
        even == IF q % 2 = 0 THEN q ELSE q + 1
        odd  == IF q % 2 = 0 THEN q + 1 ELSE q
    IN  IF 2 * r > count THEN q + 1
        ELSE IF 2 * r < count THEN q
        ELSE IF 2 * q + 1 \in FloatTieDeviations THEN odd ELSE even

\* repr of the float h / 100, as the f-string prints it
FormatFloat(h) ==
    LET a    == IF h < 0 THEN 0 - h ELSE h
        frac == a % 100
    IN  (IF h < 0 THEN <<"-">> ELSE <<>>)
          \o <<ToString(a \div 100), ".">>
          \o (IF frac % 10 = 0 THEN <<ToString(frac \div 10)>>
              ELSE <<ToString(frac \div 10), ToString(frac % 10)>>)

\* the template around the score (its pictographs left out)
ReportHead == "\n**Score final du débat : "
ReportTail == "/100**\n\n**Points forts** [...]\n"

\* the f-string of lines 203-218
Report(h) == <<ReportHead>> \o FormatFloat(h) \o <<ReportTail>>

\* lines 186-201 without the test of lines 179-180
FinalScoreWithoutEmptyTest(evals, session_id) ==
    LET evs == Get(evals, session_id, <<>>)
        acc == Accumulate(evs, 1, 1, [ok |-> TRUE, total |-> 0, count |-> 0])
    IN  IF ~acc.ok THEN [raised |-> TRUE, text |-> <<>>]
        ELSE IF acc.count = 0 THEN [raised |-> FALSE, text |-> ImpossibleCalcul]
        ELSE [raised |-> FALSE, text |-> Report(RoundedScore(acc.total, acc.count))]

\* lines 174-218 with the message of line 180 at line 199 too
FinalScoreSameMessage(evals, session_id) ==
    LET evs == Get(evals, session_id, <<>>)
        acc == Accumulate(evs, 1, 1, [ok |-> TRUE, total |-> 0, count |-> 0])
    IN  IF evs = <<>> THEN [raised |-> FALSE, text |-> AucunArgument]
        ELSE IF ~acc.ok THEN [raised |-> TRUE, text |-> <<>>]
        ELSE IF acc.count = 0 THEN [raised |-> FALSE, text |-> AucunArgument]
        ELSE [raised |-> FALSE, text |-> Report(RoundedScore(acc.total, acc.count))]

\* [raised |-> a TypeError left the function, text |-> what it returned]
_generate_final_score(evals, session_id) ==
    LET evs == Get(evals, session_id, <<>>)
        acc == Accumulate(evs, 1, 1, [ok |-> TRUE, total |-> 0, count |-> 0])
    IN  IF evs = <<>> THEN [raised |-> FALSE, text |-> AucunArgument]
        ELSE IF ~acc.ok THEN [raised |-> TRUE, text |-> <<>>]
        ELSE IF acc.count = 0 THEN [raised |-> FALSE, text |-> ImpossibleCalcul]
        ELSE [raised |-> FALSE, text |-> Report(RoundedScore(acc.total, acc.count))]

\* ------------------------------------------------------------------ state

\* session identifiers: None, the empty string, the callers' own strings and
\* the strings uuid4 makes
None == <<"None", 0>>
EmptyStr == <<"str", 0>>
ClientIds == {<<"str", 1>>}
UuidPool == {<<"uuid", k>> : k \in 1..MaxUuids}

\* the threads of the hosting server
Procs == {1, 2}
Main == 1

VARIABLES
    sessions,       \* self.sessions: identifier -> list of turns
    evaluations,    \* self.evaluations: identifier -> list of records
    calls,          \* per thread: the call it runs or ran last
    issued,         \* the identifiers uuid4 has returned
    cleared,        \* identifier cleared and not used since -> what the clear removed
    started,        \* generate_response calls started
    tally,          \* per session: the calls it has had since it was created
    overlapped      \* a request began on an identifier another one was working on

vars == <<sessions, evaluations, calls, issued, cleared, started, tally, overlapped>>

EmptyMap == [x \in {} |-> <<>>]

\* the dict a call returns, before it has returned
NoReturn == [text |-> <<>>, session_id |-> <<"None", 0>>]

\* how many turns and records a clear_session removed
NoDrop == [turns |-> 0, evaluations |-> 0]

\* a thread that has called nothing yet
NoCall ==
    [pc |-> "idle", op |-> "none", arg |-> None, session_id |-> None,
     message |-> <<>>, mode |-> "", path |-> <<>>, prompt |-> <<>>,
     context |-> <<>>, ext_calls |-> 0, analysis_text |-> <<>>,
     ret |-> NoReturn, error |-> "", cause |-> "",
     after_clear |-> FALSE, dropped |-> NoDrop,
     pre_sessions |-> EmptyMap, pre_evaluations |-> EmptyMap]

\* the errors a call can end with
GenerationError == "Erreur génération IA"
ModelError == "model error"
TypeError == "TypeError"
KeyError == "KeyError"

Init ==
    /\ sessions = EmptyMap
    /\ evaluations = EmptyMap
    /\ calls = [p \in Procs |-> NoCall]
    /\ issued = {}
    /\ cleared = EmptyMap
    /\ started = 0
    /\ tally = EmptyMap
    /\ overlapped = FALSE

\* ------------------------------------------------------------------ bookkeeping

\* a session that has had no call yet
NoTally == [scored |-> 0, ok |-> 0, failed |-> 0]

\* one more of kind for the session, when it exists
Bump(t, session_id, kind) ==
    IF session_id \in DOMAIN t THEN [t EXCEPT ![session_id][kind] = @ + 1] ELSE t

\* the tally once the step of thread p has set calls': a call that returned
\* or raised in this step is counted for its session
Settle(t, p) ==
    IF calls'[p].pc = "returned" THEN Bump(t, calls'[p].session_id, "ok")
    ELSE IF calls'[p].pc = "raised" THEN Bump(t, calls'[p].session_id, "failed")
    ELSE t

\* another thread is between two steps of a call on session_id
Busy(p, session_id) ==
    \E q \in DOMAIN calls :
        q # p /\ calls[q].pc \in {"evaluate", "generate"}
              /\ calls[q].session_id = session_id

\* ------------------------------------------------------------------ generate_response

\* not session_id
Not(session_id) == session_id \in {None, EmptyStr}

\* lines 79-80, u the value of str(uuid.uuid4())
ResolveSessionId(session_id, u) == IF Not(session_id) THEN u ELSE session_id

\* m[k] = v
Put(m, k, v) == [x \in DOMAIN m \cup {k} |-> IF x = k THEN v ELSE m[x]]

\* dict.pop(key, None)
Pop(m, k) == [x \in DOMAIN m \ {k} |-> m[x]]

\* lines 83-84 without the test of line 82
EnsureSessionAlways(sess, evals, session_id) ==
    [sessions |-> Put(sess, session_id, <<>>),
     evaluations |-> Put(evals, session_id, <<>>)]

\* lines 82-84
EnsureSession(sess, evals, session_id) ==
    IF session_id \notin DOMAIN sess
    THEN [sessions |-> Put(sess, session_id, <<>>),
          evaluations |-> Put(evals, session_id, <<>>)]
    ELSE [sessions |-> sess, evaluations |-> evals]

Turn(role, content) == [role |-> role, content |-> content]

\* list.insert(0, v) where lines 87, 95 and 119 append
AppendToFront(m, k, v) == [m EXCEPT ![k] = <<v>> \o @]

\* m[k].append(v) on a list that every key of m shares
AppendToAll(m, k, v) == [x \in DOMAIN m |-> Append(m[x], v)]

\* m[k].append(v), k a key of m
AppendTo(m, k, v) == [m EXCEPT ![k] = Append(@, v)]

\* line 93 without its test of the message
ShouldEvaluateAlways(mode, message) == mode = "score"

\* the condition of line 93
ShouldEvaluate(mode, message) == mode = "score" /\ ~IsTerminal(message)

\* line 98 testing  mode != "train"
ShouldReportUnlessTrain(mode, message) == mode # "train" /\ IsTerminal(message)

\* the condition of line 98
ShouldReport(mode, message) == mode = "score" /\ IsTerminal(message)

\* lines 108-116: the context and the prompt of the generation call
StartGeneration(c, sess) ==
    LET context == _build_context(sess, c.session_id)
    IN  [c EXCEPT !.pc = "generate",
                  !.path = Append(@, "generate"),
                  !.context = context,
                  !.prompt = FullPrompt(c.mode, context, c.message),
                  !.ext_calls = @ + 1]

\* lines 97-116 of the call c of thread p, on the maps sess and evals
Continue(p, c, sess, evals) ==
    IF ShouldReport(c.mode, c.message)
    THEN LET r == _generate_final_score(evals, c.session_id)
         IN  IF r.raised \/ c.session_id \notin DOMAIN sess
             THEN /\ sessions' = sess
                  /\ evaluations' = evals
                  /\ calls' = [calls EXCEPT ![p] =
                        [c EXCEPT !.pc = "raised",
                                  !.path = Append(@, "report"),
                                  !.error = IF r.raised THEN TypeError ELSE KeyError,
                                  !.cause = IF r.raised THEN TypeError ELSE KeyError]]
             ELSE /\ sessions' = AppendTo(sess, c.session_id, Turn("assistant", r.text))
                  /\ evaluations' = evals
                  /\ calls' = [calls EXCEPT ![p] =
                        [c EXCEPT !.pc = "returned",
                                  !.path = Append(@, "report"),
                                  !.ret = [text |-> r.text,
                                           session_id |-> c.session_id]]]
    ELSE /\ sessions' = sess
         /\ evaluations' = evals
         /\ calls' = [calls EXCEPT ![p] = StartGeneration(c, sess)]

\* generate_response(message, mode, session_id) from its first line to its
\* first external call, or to its return when it makes none
GenerateResponse(p, message, mode, session_id) ==
    /\ calls[p].pc \in {"idle", "returned", "raised"}
    /\ \E u \in (IF Not(session_id) THEN UuidPool \ issued ELSE {None}) :
         LET sid == ResolveSessionId(session_id, u)
             m   == EnsureSession(sessions, evaluations, sid)
             s2  == AppendTo(m.sessions, sid, Turn("user", message))
             c   == [NoCall EXCEPT !.op = "generate_response",
                                   !.arg = session_id,
                                   !.session_id = sid,
                                   !.message = message,
                                   !.mode = mode,
                                   !.after_clear = sid \in DOMAIN cleared,
                                   !.dropped = Get(cleared, sid, NoDrop),
                                   !.pre_sessions = sessions,
                                   !.pre_evaluations = evaluations]
         IN  /\ issued' = IF Not(session_id) THEN issued \cup {u} ELSE issued
             /\ cleared' = Pop(cleared, sid)
             /\ started' = started + 1
             /\ overlapped' = (overlapped \/ Busy(p, sid))
             /\ IF ShouldEvaluate(mode, message)
                THEN /\ sessions' = s2
                     /\ evaluations' = m.evaluations
                     /\ calls' = [calls EXCEPT ![p] =
                           [c EXCEPT !.pc = "evaluate",
                                     !.path = <<"evaluate">>,
                                     !.prompt = EvalPrompt(message),
                                     !.ext_calls = 1]]
                ELSE Continue(p, c, s2, m.evaluations)
             /\ LET t == IF sid \in DOMAIN sessions THEN tally
                         ELSE Put(tally, sid, NoTally)
                IN  tally' = Settle(
                        IF mode = "score" /\ ~IsTerminal(message)
                        THEN Bump(t, sid, "scored") ELSE t,
                        p)

\* the model answers the evaluation prompt with text: lines 164-170, 95 and on
EvaluateReturn(p, text) ==
    /\ calls[p].pc = "evaluate"
    /\ UNCHANGED <<issued, cleared, started, overlapped>>
    /\ LET c == [calls[p] EXCEPT !.analysis_text = text]
       IN  IF c.session_id \notin DOMAIN evaluations
           THEN /\ calls' = [calls EXCEPT ![p] =
                      [c EXCEPT !.pc = "raised", !.error = KeyError,
                                !.cause = KeyError]]
                /\ UNCHANGED <<sessions, evaluations>>
           ELSE Continue(p, c, sessions,
                         AppendTo(evaluations, c.session_id, ParseAnalysis(text)))
    /\ tally' = Settle(tally, p)

\* line 94 raising after a record for the failure has been stored
EvaluateRaiseStoresRecord(p) ==
    /\ calls[p].pc = "evaluate"
    /\ calls' = [calls EXCEPT ![p] =
          [@ EXCEPT !.pc = "raised", !.error = ModelError, !.cause = ModelError]]
    /\ evaluations' = AppendTo(evaluations, calls[p].session_id,
                               [obj |-> (<<"r","a","w">> :> [str |-> <<>>])])
    /\ tally' = Settle(tally, p)
    /\ UNCHANGED <<sessions, issued, cleared, started, overlapped>>

\* the evaluation call raises: nothing catches it (line 94 is outside the try)
EvaluateRaise(p) ==
    /\ calls[p].pc = "evaluate"
    /\ calls' = [calls EXCEPT ![p] =
          [@ EXCEPT !.pc = "raised", !.error = ModelError, !.cause = ModelError]]
    /\ tally' = Settle(tally, p)
    /\ UNCHANGED <<sessions, evaluations, issued, cleared, started, overlapped>>

\* lines 117-124 without the append of lines 119-122
GenerateReturnWithoutAppend(p, text) ==
    /\ calls[p].pc = "generate"
    /\ calls' = [calls EXCEPT ![p] =
          [@ EXCEPT !.pc = "returned",
                    !.ret = [text |-> text, session_id |-> calls[p].session_id]]]
    /\ tally' = Settle(tally, p)
    /\ UNCHANGED <<sessions, evaluations, issued, cleared, started, overlapped>>

\* lines 117-124 with the append of lines 119-122 made twice
GenerateReturnTwice(p, text) ==
    /\ calls[p].pc = "generate"
    /\ UNCHANGED <<evaluations, issued, cleared, started, overlapped>>
    /\ LET c == calls[p]
       IN  IF c.session_id \notin DOMAIN sessions
           THEN /\ calls' = [calls EXCEPT ![p] =
                      [c EXCEPT !.pc = "raised", !.error = GenerationError,
                                !.cause = KeyError]]
                /\ UNCHANGED sessions
           ELSE /\ sessions' = [sessions EXCEPT ![c.session_id] =
                       @ \o <<Turn("assistant", text), Turn("assistant", text)>>]
                /\ calls' = [calls EXCEPT ![p] =
                      [c EXCEPT !.pc = "returned",
                                !.ret = [text |-> text,
                                         session_id |-> c.session_id]]]
    /\ tally' = Settle(tally, p)

\* the model answers the full prompt with text: lines 117-124
GenerateReturn(p, text) ==
    /\ calls[p].pc = "generate"
    /\ UNCHANGED <<evaluations, issued, cleared, started, overlapped>>
    /\ LET c == calls[p]
       IN  IF c.session_id \notin DOMAIN sessions
           THEN /\ calls' = [calls EXCEPT ![p] =
                      [c EXCEPT !.pc = "raised", !.error = GenerationError,
                                !.cause = KeyError]]
                /\ UNCHANGED sessions
           ELSE /\ sessions' = AppendTo(sessions, c.session_id, Turn("assistant", text))
                /\ calls' = [calls EXCEPT ![p] =
                      [c EXCEPT !.pc = "returned",
                                !.ret = [text |-> text,
                                         session_id |-> c.session_id]]]
    /\ tally' = Settle(tally, p)

\* a handler that undoes the user turn before it re-raises
GenerateRaiseRollback(p) ==
    /\ calls[p].pc = "generate"
    /\ calls' = [calls EXCEPT ![p] =
          [@ EXCEPT !.pc = "raised", !.error = GenerationError, !.cause = ModelError]]
    /\ sessions' = [sessions EXCEPT ![calls[p].session_id] =
                        SubSeq(@, 1, Len(@) - 1)]
    /\ tally' = Settle(tally, p)
    /\ UNCHANGED <<evaluations, issued, cleared, started, overlapped>>

\* the generation call raises: lines 126-127 wrap the error
GenerateRaise(p) ==
    /\ calls[p].pc = "generate"
    /\ calls' = [calls EXCEPT ![p] =
          [@ EXCEPT !.pc = "raised", !.error = GenerationError, !.cause = ModelError]]
    /\ tally' = Settle(tally, p)
    /\ UNCHANGED <<sessions, evaluations, issued, cleared, started, overlapped>>

\* ------------------------------------------------------------------ clear_session

\* clear_session that forgets line 226
ClearMapsEvaluationsOnly(sess, evals, session_id) ==
    [sessions |-> sess, evaluations |-> Pop(evals, session_id)]

\* clear_session that empties both maps
ClearMapsAll(sess, evals, session_id) ==
    [sessions |-> EmptyMap, evaluations |-> EmptyMap]

\* clear_session that forgets line 227
ClearMapsSessionsOnly(sess, evals, session_id) ==
    [sessions |-> Pop(sess, session_id), evaluations |-> evals]

\* lines 226-227
ClearMaps(sess, evals, session_id) ==
    [sessions |-> Pop(sess, session_id), evaluations |-> Pop(evals, session_id)]

ClearSession(p, session_id) ==
    /\ calls[p].pc \in {"idle", "returned", "raised"}
    /\ LET m == ClearMaps(sessions, evaluations, session_id)
       IN  /\ sessions' = m.sessions
           /\ evaluations' = m.evaluations
    /\ calls' = [calls EXCEPT ![p] =
          [NoCall EXCEPT !.pc = "returned",
                         !.op = "clear_session",
                         !.arg = session_id,
                         !.session_id = session_id,
                         !.pre_sessions = sessions,
                         !.pre_evaluations = evaluations]]
    /\ cleared' = Put(cleared, session_id,
                      [turns |-> Len(Get(sessions, session_id, <<>>)),
                       evaluations |-> Len(Get(evaluations, session_id, <<>>))])
    /\ tally' = Pop(tally, session_id)
    /\ overlapped' = (overlapped \/ Busy(p, session_id))
    /\ UNCHANGED <<issued, started>>

\* ------------------------------------------------------------------ inputs

\* user messages
MsgFIN == <<"F","I","N">>
MsgOk == <<"o","k">>
MsgFinDuDebat == <<"F","i","n"," ","d","u"," ","D","É","B","A","T">>
MsgScore == <<"S","c","o","r","e">>
MsgFinSpace == <<"f","i","n"," ">>
Messages == {MsgFIN, MsgOk}
\* the three terminal phrases in mixed case, and two messages that are none
WordMessages == {MsgFIN, MsgOk, MsgFinDuDebat, MsgScore, MsgFinSpace}

Modes == {"train", "score", "debate"}

\* what the model answers to the full prompt
GenTexts == { <<"o","u","i">> }

\* what the model answers to the evaluation prompt: an object with two
\* criteria, text that is no JSON, and JSON that is no object
TextObject ==
    <<"{","\"","l","o","g","i","q","u","e","\"",":"," ","1","2",","," ",
      "\"","p","r","e","u","v","e","s","\"",":"," ","7","}">>
TextNoJson == <<"n","o","n">>
TextNumber == <<"7">>
EvalTexts == {TextObject, TextNoJson, TextNumber}

\* the identifiers a caller can pass: nothing, its own strings, and the
\* identifiers earlier calls have made
ArgIds == {None, EmptyStr} \cup ClientIds \cup issued

\* ------------------------------------------------------------------ Spec

InFlight(p) == calls[p].pc \in {"evaluate", "generate"}

\* one request at a time
Sequential == \A q \in Procs : ~InFlight(q)

Next ==
    \/ \E message \in Messages, mode \in Modes, session_id \in ArgIds :
          /\ started < MaxCalls
          /\ Sequential
          /\ GenerateResponse(Main, message, mode, session_id)
    \/ \E text \in EvalTexts : EvaluateReturn(Main, text)
    \/ EvaluateRaise(Main)
    \/ \E text \in GenTexts : GenerateReturn(Main, text)
    \/ GenerateRaise(Main)
    \/ \E session_id \in ArgIds \ {None} :
          /\ Sequential
          /\ ClearSession(Main, session_id)

Spec == Init /\ [][Next]_vars

\* ------------------------------------------------------------------ SpecWords

\* one session, every kind of message
NextWords ==
    \/ \E message \in WordMessages, mode \in Modes, session_id \in ClientIds :
          /\ started < MaxWordCalls
          /\ Sequential
          /\ GenerateResponse(Main, message, mode, session_id)
    \/ \E text \in EvalTexts : EvaluateReturn(Main, text)
    \/ EvaluateRaise(Main)
    \/ \E text \in GenTexts : GenerateReturn(Main, text)
    \/ GenerateRaise(Main)

SpecWords == Init /\ [][NextWords]_vars

\* ------------------------------------------------------------------ SpecLong

\* two sessions with histories longer than the context window
LongIds == {<<"str", 1>>, <<"str", 2>>}

NextLong ==
    \/ \E message \in Messages, session_id \in LongIds :
          /\ started < MaxLongCalls
          /\ Sequential
          /\ GenerateResponse(Main, message, "train", session_id)
    \/ \E text \in GenTexts : GenerateReturn(Main, text)
    \/ GenerateRaise(Main)

SpecLong == Init /\ [][NextLong]_vars

\* ------------------------------------------------------------------ SpecScore

\* one session evaluated in score mode, with the
\* answers that decide the final score: all five criteria at 10, three
\* criteria (with TextFive a sum of 87 over 8 values, a tie the float product
\* misses), a value above 20, an empty JSON list, and the answers of EvalTexts
TextFive ==
    <<"{","\"","l","o","g","i","q","u","e","\"",":"," ","1","0",","," ",
      "\"","p","r","e","u","v","e","s","\"",":"," ","1","0",","," ","\"",
      "f","o","r","c","e","_","a","r","g","u","m","e","n","t","a","t","i",
      "v","e","\"",":"," ","1","0",","," ","\"","s","t","r","u","c","t","u",
      "r","e","\"",":"," ","1","0",","," ","\"","c","l","a","r","t","e","_",
      "s","t","y","l","e","\"",":"," ","1","0","}">>
TextThree ==
    <<"{","\"","l","o","g","i","q","u","e","\"",":"," ","1","2",","," ",
      "\"","p","r","e","u","v","e","s","\"",":"," ","1","2",","," ","\"",
      "s","t","r","u","c","t","u","r","e","\"",":"," ","1","3","}">>
TextHigh ==
    <<"{","\"","l","o","g","i","q","u","e","\"",":"," ","2","5","}">>
TextEmptyList == <<"[", "]">>
ScoreTexts == {TextFive, TextThree, TextHigh, TextEmptyList, TextNoJson, TextNumber}

ScoreModes == {"train", "score"}

NextScore ==
    \/ \E message \in Messages, mode \in ScoreModes, session_id \in ClientIds :
          /\ started < MaxScoreCalls
          /\ Sequential
          /\ GenerateResponse(Main, message, mode, session_id)
    \/ \E text \in ScoreTexts : EvaluateReturn(Main, text)
    \/ EvaluateRaise(Main)
    \/ \E text \in GenTexts : GenerateReturn(Main, text)
    \/ GenerateRaise(Main)
    \/ \E session_id \in ClientIds :
          /\ Sequential
          /\ session_id \in DOMAIN sessions
          /\ ClearSession(Main, session_id)

SpecScore == Init /\ [][NextScore]_vars

\* ------------------------------------------------------------------ SpecConc

\* two threads call the service on two identifiers in score mode; a thread
\* runs from one external call to the next without interruption, and the
\* other thread may run while it waits for the model
ConcMessages == {MsgOk}
ConcModes == {"score"}
ConcTexts == {TextObject}

NextConc ==
    \E p \in Procs :
        \/ \E message \in ConcMessages, mode \in ConcModes, session_id \in LongIds :
              /\ started < MaxConcCalls
              /\ GenerateResponse(p, message, mode, session_id)
        \/ \E text \in ConcTexts : EvaluateReturn(p, text)
        \/ EvaluateRaise(p)
        \/ \E text \in GenTexts : GenerateReturn(p, text)
        \/ GenerateRaise(p)
        \/ \E session_id \in LongIds :
              /\ session_id \in DOMAIN sessions
              /\ ClearSession(p, session_id)

SpecConc == Init /\ [][NextConc]_vars

\* ------------------------------------------------------------------ claims

Min(a, b) == IF a < b THEN a ELSE b

Range(f) == {f[x] : x \in DOMAIN f}

IsPrefix(a, b) == Len(a) <= Len(b) /\ SubSeq(b, 1, Len(a)) = a

\* the call of thread p is a generate_response that has ended
Ended(p) == calls[p].op = "generate_response" /\ ~InFlight(p)

\* the turns and the records the session of call c had when the call began
PreTurns(c) == Get(c.pre_sessions, c.session_id, <<>>)
PreEvals(c) == Get(c.pre_evaluations, c.session_id, <<>>)

\* C1: in every state the session map and the evaluation map have the same
\* identifiers: a turn list and an evaluation list exist together or not at all
SessionsAndEvaluationsCoexist == DOMAIN sessions = DOMAIN evaluations

\* a clear_session has removed a session that existed while another one stays
C1Witness ==
    /\ calls[Main].op = "clear_session"
    /\ calls[Main].session_id \in DOMAIN calls[Main].pre_sessions
    /\ DOMAIN sessions # {}
    /\ DOMAIN sessions = DOMAIN evaluations

\* C2: a score-mode call with a terminal phrase returns the final report,
\* appends the user turn and then one assistant turn holding that report,
\* calls the model zero times and appends no evaluation record, whatever
\* the session held before
TerminalPhraseReturnsReport ==
    \A p \in Procs :
        LET c == calls[p]
        IN  (Ended(p) /\ c.mode = "score" /\ IsTerminal(c.message)) =>
              /\ c.pc = "returned"
              /\ c.ext_calls = 0
              /\ sessions[c.session_id] =
                    PreTurns(c) \o <<Turn("user", c.message),
                                     Turn("assistant", c.ret.text)>>
              /\ c.ret.text \in {AucunArgument, ImpossibleCalcul}
                    \/ (Len(c.ret.text) > 1 /\ c.ret.text[1] = ReportHead)
              /\ evaluations[c.session_id] = PreEvals(c)

\* C3: when the generation call fails, the call ends with the wrapped error,
\* the session exists and ends with this call's user turn, no assistant turn
\* was added, and in score mode the record of this message is still the last
\* of the evaluation list
GenerationFailureKeepsState ==
    \A p \in Procs :
        LET c == calls[p]
        IN  (Ended(p) /\ c.pc = "raised" /\ c.path # <<>>
                /\ c.path[Len(c.path)] = "generate") =>
              /\ c.error = GenerationError
              /\ c.session_id \in DOMAIN sessions
              /\ c.session_id \in DOMAIN evaluations
              /\ sessions[c.session_id] = PreTurns(c) \o <<Turn("user", c.message)>>
              /\ IF c.mode = "score"
                 THEN /\ c.path = <<"evaluate", "generate">>
                      /\ Len(evaluations[c.session_id]) = Len(PreEvals(c)) + 1
                      /\ IsPrefix(PreEvals(c), evaluations[c.session_id])
                 ELSE evaluations[c.session_id] = PreEvals(c)
              /\ \A k \in DOMAIN c.pre_sessions \ {c.session_id} :
                    /\ k \in DOMAIN sessions /\ sessions[k] = c.pre_sessions[k]
                    /\ k \in DOMAIN evaluations
                    /\ evaluations[k] = c.pre_evaluations[k]

\* beside another session, a score-mode call has stored its record and then
\* lost its generation call
C3Witness ==
    LET c == calls[Main]
    IN  /\ Ended(Main) /\ c.pc = "raised" /\ c.mode = "score"
        /\ c.path = <<"evaluate", "generate">>
        /\ c.error = GenerationError
        /\ DOMAIN c.pre_sessions \ {c.session_id} # {}
        /\ Len(evaluations[c.session_id]) = Len(PreEvals(c)) + 1

\* C4: every call that ends because an external model call failed ends with
\* the wrapped error, whether the evaluation or the generation made the call
EveryModelFailureIsWrapped ==
    \A p \in Procs :
        LET c == calls[p]
        IN  (Ended(p) /\ c.pc = "raised" /\ c.error \in {ModelError, GenerationError})
                => c.error = GenerationError

\* C5: a cleared identifier is in neither map, and the generate_response that
\* follows a clear_session of its identifier starts from nothing: the context
\* it sends holds only its own user turn, its final report sees no record,
\* and afterwards the session holds this call's turns and records only
ClearedSessionStartsFresh ==
    /\ \A id \in DOMAIN cleared :
          id \notin DOMAIN sessions /\ id \notin DOMAIN evaluations
    /\ \A p \in Procs :
          LET c == calls[p]
              own == <<Turn("user", c.message)>>
          IN  (c.op = "generate_response" /\ c.after_clear) =>
                /\ c.session_id \notin DOMAIN c.pre_sessions
                /\ c.session_id \notin DOMAIN c.pre_evaluations
                /\ "generate" \in Range(c.path) =>
                      c.context = <<"User", ": ">> \o c.message \o <<"\n">>
                /\ "report" \in Range(c.path) =>
                      c.pc = "returned" /\ c.ret.text = AucunArgument
                /\ sessions[c.session_id] =
                      IF c.pc = "returned"
                      THEN own \o <<Turn("assistant", c.ret.text)>> ELSE own
                /\ Len(evaluations[c.session_id]) =
                      IF Len(c.path) >= 2 /\ c.path[1] = "evaluate" THEN 1 ELSE 0

\* a session with turns and a record was cleared, and the next score-mode
\* call on its identifier has evaluated, generated and returned
C5Witness ==
    LET c == calls[Main]
    IN  /\ c.op = "generate_response" /\ c.after_clear /\ c.pc = "returned"
        /\ c.dropped.turns >= 2 /\ c.dropped.evaluations >= 1
        /\ c.path = <<"evaluate", "generate">>
        /\ Len(sessions[c.session_id]) = 2
        /\ Len(evaluations[c.session_id]) = 1

\* C6: clear_session never raises; it removes the identifier's turn list and
\* evaluation list and nothing else, and on an absent identifier it changes
\* neither map
ClearSessionFrame ==
    \A p \in Procs :
        LET c == calls[p]
        IN  c.op = "clear_session" =>
              /\ c.pc = "returned"
              /\ DOMAIN sessions = DOMAIN c.pre_sessions \ {c.session_id}
              /\ DOMAIN evaluations = DOMAIN c.pre_evaluations \ {c.session_id}
              /\ \A k \in DOMAIN sessions : sessions[k] = c.pre_sessions[k]
              /\ \A k \in DOMAIN evaluations : evaluations[k] = c.pre_evaluations[k]
              /\ c.session_id \notin DOMAIN c.pre_sessions =>
                    sessions = c.pre_sessions /\ evaluations = c.pre_evaluations

\* one of two sessions with turns has been cleared and the other is intact
C6Witness ==
    LET c == calls[Main]
    IN  /\ c.op = "clear_session"
        /\ c.session_id \in DOMAIN c.pre_sessions
        /\ \E k \in DOMAIN sessions : Len(sessions[k]) > 0
        /\ c.session_id \notin DOMAIN sessions

\* the line the context holds for one turn
ExpectedLine(t) ==
    IF t.role = "user" THEN <<"User", ": ">> \o t.content \o <<"\n">>
    ELSE <<"Assistant", ": ">> \o t.content \o <<"\n">>

\* the lines of turns first..last of h, one after the other
RECURSIVE ExpectedLines(_, _, _)
ExpectedLines(h, first, last) ==
    IF first > last THEN <<>>
    ELSE ExpectedLines(h, first, last - 1) \o ExpectedLine(h[last])

\* C7: the context of the generation step is the rendering, in order, of the
\* last min(10, length) turns the session holds at that moment, this call's
\* user turn last: never more than 10 turns and only turns of this session
ContextIsLastTenTurns ==
    \A p \in Procs :
        LET c == calls[p]
            h == PreTurns(c) \o <<Turn("user", c.message)>>
            n == Min(10, Len(h))
        IN  (c.op = "generate_response" /\ "generate" \in Range(c.path)) =>
              /\ c.context = ExpectedLines(h, Len(h) - n + 1, Len(h))
              /\ c.prompt = <<SystemPrompt, "\n\n", "MODE ACTUEL : ", c.mode, "\n\n">>
                              \o c.context \o <<"\n", "Utilisateur : ">> \o c.message

\* a context was built from a history of more than 10 turns, of both roles
\* and with different messages, whose first turn is not its eleventh-last
C7Witness ==
    LET c == calls[Main]
        h == PreTurns(c) \o <<Turn("user", c.message)>>
    IN  /\ c.op = "generate_response" /\ "generate" \in Range(c.path)
        /\ Len(h) > 10
        /\ h[1] # h[Len(h) - 9]
        /\ \E i \in 1..Len(h) : h[i].role = "assistant"
        /\ \E i \in 1..Len(h) : h[i].content = MsgOk
        /\ \E i \in 1..Len(h) : h[i].content = MsgFIN

\* C8: a call without session_id works on an identifier that was no key of
\* the session map, creates that session and returns that identifier; a call
\* with an identifier works on it, returns it, creates no other session and
\* keeps the turns the session already had as a prefix of its history
FreshSessionIdThenReuse ==
    \A p \in Procs :
        LET c == calls[p]
        IN  c.op = "generate_response" =>
              /\ c.pc = "returned" => c.ret.session_id = c.session_id
              /\ c.session_id \in DOMAIN sessions
              /\ DOMAIN sessions = DOMAIN c.pre_sessions \cup {c.session_id}
              /\ IF Not(c.arg)
                 THEN /\ c.session_id \notin DOMAIN c.pre_sessions
                      /\ c.session_id \notin {None, EmptyStr}
                      /\ sessions[c.session_id][1] = Turn("user", c.message)
                 ELSE /\ c.session_id = c.arg
                      /\ IsPrefix(PreTurns(c) \o <<Turn("user", c.message)>>,
                                  sessions[c.session_id])

\* a call without session_id has made an identifier, and a later call given
\* that identifier has returned it with the earlier turns still in front
C8Witness ==
    LET c == calls[Main]
    IN  /\ c.op = "generate_response" /\ c.pc = "returned"
        /\ c.arg \in issued
        /\ c.ret.session_id = c.arg
        /\ Len(PreTurns(c)) >= 2
        /\ Len(sessions[c.arg]) = Len(PreTurns(c)) + 2

\* C9: a call whose mode is neither "train" nor "score" does what the same
\* call does in mode "train", terminal phrase or not: it takes the
\* generation path alone, appends no record, and ends with the model's text
\* appended and returned or with the wrapped error and the user turn kept
OtherModeIsTrain ==
    \A p \in Procs :
        LET c == calls[p]
            h == PreTurns(c) \o <<Turn("user", c.message)>>
        IN  (c.op = "generate_response" /\ c.mode # "score") =>
              /\ c.path = <<"generate">>
              /\ c.ext_calls = 1
              /\ c.context = _build_context(Put(c.pre_sessions, c.session_id, h),
                                            c.session_id)
              /\ evaluations[c.session_id] = PreEvals(c)
              /\ c.pc \in {"generate", "returned", "raised"}
              /\ c.pc = "generate" => sessions[c.session_id] = h
              /\ c.pc = "returned" =>
                    /\ sessions[c.session_id] = h \o <<Turn("assistant", c.ret.text)>>
                    /\ c.ret.text \in GenTexts
              /\ c.pc = "raised" =>
                    sessions[c.session_id] = h /\ c.error = GenerationError

\* a call in a third mode with a terminal phrase has returned the model's
\* text on a session that holds a record
C9Witness ==
    LET c == calls[Main]
    IN  /\ c.op = "generate_response" /\ c.pc = "returned"
        /\ c.mode \notin {"train", "score"}
        /\ IsTerminal(c.message)
        /\ Len(PreEvals(c)) > 0
        /\ c.ret.text \in GenTexts

\* C10: a score-mode call takes exactly one of two paths: the final report
\* when its message is a terminal phrase, else evaluation then generation.
\* On the second path the record of the evaluation is appended, one record,
\* as soon as the evaluation returns, the generation call follows as the
\* second external call, and its text is appended as the assistant turn and
\* returned; an evaluation call that raises ends the call with no record
ScoreModeTakesOnePath ==
    \A p \in Procs :
        LET c == calls[p]
            h == PreTurns(c) \o <<Turn("user", c.message)>>
        IN  (c.op = "generate_response" /\ c.mode = "score") =>
              IF IsTerminal(c.message)
              THEN /\ c.path = <<"report">>
                   /\ c.ext_calls = 0
                   /\ evaluations[c.session_id] = PreEvals(c)
              ELSE /\ c.path \in {<<"evaluate">>, <<"evaluate", "generate">>}
                   /\ c.path = <<"evaluate">> =>
                         /\ c.pc \in {"evaluate", "raised"}
                         /\ c.ext_calls = 1
                         /\ evaluations[c.session_id] = PreEvals(c)
                         /\ sessions[c.session_id] = h
                   /\ c.path = <<"evaluate", "generate">> =>
                         /\ c.ext_calls = 2
                         /\ Len(evaluations[c.session_id]) = Len(PreEvals(c)) + 1
                         /\ IsPrefix(PreEvals(c), evaluations[c.session_id])
                         /\ c.pc \in {"generate", "returned", "raised"}
                         /\ c.pc = "returned" =>
                               /\ sessions[c.session_id] =
                                     h \o <<Turn("assistant", c.ret.text)>>
                               /\ c.ret.text \in GenTexts

\* a score-mode call with a message that is no terminal phrase has stored
\* its record after an earlier one and returned the generated text
C10Witness ==
    LET c == calls[Main]
    IN  /\ c.op = "generate_response" /\ c.mode = "score" /\ c.pc = "returned"
        /\ ~IsTerminal(c.message)
        /\ c.path = <<"evaluate", "generate">>
        /\ Len(PreEvals(c)) = 1
        /\ Len(evaluations[c.session_id]) = 2
        /\ c.ret.text \in GenTexts

\* C11: a final score asked of a session that holds no evaluation record (a
\* new session, one used in train mode only, one just cleared) returns the
\* message "Aucun argument à évaluer." and no score, and so does the
\* computation on every stored list that is empty
NoRecordGivesAucunArgument ==
    /\ \A id \in DOMAIN evaluations :
          evaluations[id] = <<>> =>
              _generate_final_score(evaluations, id) =
                  [raised |-> FALSE, text |-> AucunArgument]
    /\ \A p \in Procs :
          LET c == calls[p]
          IN  (Ended(p) /\ "report" \in Range(c.path) /\ PreEvals(c) = <<>>) =>
                /\ c.pc = "returned"
                /\ c.ret.text = AucunArgument
                /\ c.ext_calls = 0

\* a session was cleared, was then used in train mode without a failure, and
\* its score-mode terminal phrase has been answered
C11Witness ==
    LET c == calls[Main]
    IN  /\ Ended(Main) /\ c.path = <<"report">>
        /\ PreEvals(c) = <<>>
        /\ Len(PreTurns(c)) = 2
        /\ c.session_id \in DOMAIN evaluations
        /\ tally[c.session_id].scored = 0
        /\ started = 3

\* the record is a mapping, and the keys it has among the five criteria
IsMapping(ev) == Tag(ev) = "obj"
CriteriaOf(ev) == {k \in 1..Len(criteres) : criteres[k] \in DOMAIN ev.obj}

\* the fallback record of a text, and a list without its fallback records
RawRecord(text) == [obj |-> (<<"r","a","w">> :> [str |-> text])]
IsRawRecord(ev) == IsMapping(ev) /\ DOMAIN ev.obj = {<<"r","a","w">>}
NotRaw(ev) == ~IsRawRecord(ev)
WithoutRaw(evs) == SelectSeq(evs, NotRaw)

\* a record that gives no value for any criterion: a mapping without a
\* criterion among its keys, or a stored value that is no mapping and holds
\* no criterion name
GivesNoValue(ev) ==
    CASE Tag(ev) = "obj"  -> CriteriaOf(ev) = {}
      [] Tag(ev) = "str"  ->
            \A k \in 1..Len(criteres) : ~IsSubstring(criteres[k], ev.str)
      [] Tag(ev) = "list" ->
            \A k \in 1..Len(criteres) : [str |-> criteres[k]] \notin Range(ev.list)
      [] OTHER -> TRUE

\* one record or more, none of them giving a value
RecordsWithoutCriterion(evs) ==
    evs # <<>> /\ \A i \in 1..Len(evs) : GivesNoValue(evs[i])

\* a stored number, boolean or null, on which line 194 raises TypeError
NotIterable(ev) == Tag(ev) \in {"num", "bool", "null"}

\* C12 as stated: a final score asked of a session whose records hold no
\* criterion returns the same message as for a session without records,
\* "Aucun argument à évaluer."
NoCriterionGivesAucunArgument ==
    \A p \in Procs :
        LET c == calls[p]
        IN  (Ended(p) /\ "report" \in Range(c.path)
                /\ RecordsWithoutCriterion(PreEvals(c))) =>
              c.pc = "returned" /\ c.ret.text = AucunArgument

\* C12 amended: a final score asked of a session that has records, none of
\* them giving a value for a criterion, returns "Impossible de calculer le
\* score.", which is not the message of a session without records, and makes
\* no external call; when one of the records is a stored number, boolean or
\* null the computation raises TypeError instead
NoCriterionGivesImpossibleCalcul ==
    /\ ImpossibleCalcul # AucunArgument
    /\ \A id \in DOMAIN evaluations :
          RecordsWithoutCriterion(evaluations[id]) =>
              _generate_final_score(evaluations, id) =
                  IF \E i \in 1..Len(evaluations[id]) : NotIterable(evaluations[id][i])
                  THEN [raised |-> TRUE, text |-> <<>>]
                  ELSE [raised |-> FALSE, text |-> ImpossibleCalcul]
    /\ \A p \in Procs :
          LET c == calls[p]
              evs == PreEvals(c)
          IN  (Ended(p) /\ "report" \in Range(c.path)
                  /\ RecordsWithoutCriterion(evs)) =>
                /\ c.ext_calls = 0
                /\ IF \E i \in 1..Len(evs) : NotIterable(evs[i])
                   THEN c.pc = "raised" /\ c.cause = TypeError
                   ELSE c.pc = "returned" /\ c.ret.text = ImpossibleCalcul

\* two answers that were no JSON are the records of a session, and its
\* score-mode terminal phrase has been answered
C12Witness ==
    LET c == calls[Main]
    IN  /\ Ended(Main) /\ c.path = <<"report">>
        /\ Len(PreEvals(c)) = 2
        /\ \A i \in 1..2 : IsRawRecord(PreEvals(c)[i])
        /\ c.pc = "returned"
        /\ c.ret.text = ImpossibleCalcul
        /\ evaluations[c.session_id] = PreEvals(c)

\* the values a mapping record holds for the criteria of the set ks, added up
RECURSIVE SumCriteria(_, _)
SumCriteria(ev, ks) ==
    IF ks = {} THEN 0
    ELSE LET k == CHOOSE x \in ks : TRUE
         IN  ev.obj[criteres[k]].num + SumCriteria(ev, ks \ {k})

\* the criterion values present in the first n records: their sum, how many
\* they are, and whether all of them lie in 0..20
RECURSIVE ValueSum(_, _)
ValueSum(evs, n) ==
    IF n = 0 THEN 0
    ELSE ValueSum(evs, n - 1) + SumCriteria(evs[n], CriteriaOf(evs[n]))
RECURSIVE ValueCount(_, _)
ValueCount(evs, n) ==
    IF n = 0 THEN 0
    ELSE ValueCount(evs, n - 1) + Cardinality(CriteriaOf(evs[n]))
ValuesInRange(evs) ==
    \A i \in 1..Len(evs) : \A k \in CriteriaOf(evs[i]) :
        evs[i].obj[criteres[k]].num \in 0..20

\* mapping records with one criterion value or more
RecordsWithValues(evs) ==
    /\ \A i \in 1..Len(evs) : IsMapping(evs[i])
    /\ ValueCount(evs, Len(evs)) > 0

\* the numbers of hundredths that are sum / (count * 20) * 100 rounded to two
\* decimals: at most half a hundredth away from the quotient
TwoDecimals(sum, count) ==
    LET q == FloorDiv(sum * 500, count)
    IN  {h \in {q, q + 1} :
            LET d == h * count - sum * 500
            IN  2 * (IF d < 0 THEN 0 - d ELSE d) <= count}

\* a text is the report of the score computed from the list evs
IsScoreOf(text, evs) ==
    LET sum   == ValueSum(evs, Len(evs))
        count == ValueCount(evs, Len(evs))
    IN  \E h \in TwoDecimals(sum, count) :
            /\ text = Report(h)
            /\ ValuesInRange(evs) => h \in 0..10000

\* two records with all five criteria equal to 10
TwoRecordsOfTen == <<ParseAnalysis(TextFive), ParseAnalysis(TextFive)>>

\* C13: for mapping records with one criterion value or more, the report
\* holds sum / (count * 20) * 100 rounded to two decimals, the sum and the
\* count taken over the five criteria present in the records; the score
\* follows from the records alone, lies in 0..100 when every value lies in
\* 0..20, and is 50.0 for two records with all five criteria equal to 10
FinalScoreIsRoundedAverage ==
    /\ \A id \in DOMAIN evaluations :
          LET r == _generate_final_score(evaluations, id)
          IN  /\ RecordsWithValues(evaluations[id]) =>
                    ~r.raised /\ IsScoreOf(r.text, evaluations[id])
              /\ evaluations[id] = TwoRecordsOfTen =>
                    r.text = <<ReportHead, "50", ".", "0", ReportTail>>
    /\ \A p \in Procs :
          LET c == calls[p]
          IN  (Ended(p) /\ "report" \in Range(c.path)
                  /\ RecordsWithValues(PreEvals(c))) =>
                /\ c.pc = "returned"
                /\ IsScoreOf(c.ret.text, PreEvals(c))
                /\ c.ret.text =
                      _generate_final_score(c.pre_evaluations, c.session_id).text

\* the report of a session with two records of five criteria at 10 has been
\* returned with the score 50.0
C13Witness ==
    LET c == calls[Main]
    IN  /\ Ended(Main) /\ c.path = <<"report">> /\ c.pc = "returned"
        /\ PreEvals(c) = TwoRecordsOfTen
        /\ c.ret.text = Report(5000)
        /\ ValueSum(PreEvals(c), 2) = 100
        /\ ValueCount(PreEvals(c), 2) = 10

\* an evaluation answer that is no JSON becomes the record {raw: text} and
\* the call goes on to the generation without an error of its own
FallbackIsSilent ==
    \A p \in Procs :
        LET c == calls[p]
            n == Len(PreEvals(c))
        IN  (c.op = "generate_response" /\ Len(c.path) >= 2
                /\ c.path[1] = "evaluate" /\ ~json_loads(c.analysis_text).ok) =>
              /\ c.path[2] = "generate"
              /\ Len(evaluations[c.session_id]) = n + 1
              /\ evaluations[c.session_id][n + 1] = RawRecord(c.analysis_text)
              /\ c.pc = "raised" => c.cause = ModelError

\* C14 as stated: an answer that is no JSON becomes {raw: text} silently, and
\* the final score of every session is what it is without its raw records
FinalScoreIgnoresRawRecords ==
    /\ FallbackIsSilent
    /\ \A id \in DOMAIN evaluations :
          _generate_final_score(evaluations, id) =
              _generate_final_score(
                  [evaluations EXCEPT ![id] = WithoutRaw(@)], id)

\* C14 amended: an answer that is no JSON becomes {raw: text} silently; a raw
\* record adds nothing to the sum or the count and raises nothing, so the
\* final score is what it is without the raw records, except that a session
\* whose records are all raw gets "Impossible de calculer le score." where it
\* would get "Aucun argument à évaluer." without them
FinalScoreIgnoresRawRecordsButMessage ==
    /\ FallbackIsSilent
    /\ \A id \in DOMAIN evaluations :
          LET evs  == evaluations[id]
              kept == WithoutRaw(evs)
              with == _generate_final_score(evaluations, id)
              without == _generate_final_score(
                             [evaluations EXCEPT ![id] = kept], id)
          IN  /\ with.raised = without.raised
              /\ (kept # <<>> \/ evs = <<>>) => with = without
              /\ (kept = <<>> /\ evs # <<>>) =>
                    /\ with.text = ImpossibleCalcul
                    /\ without.text = AucunArgument

\* a session holds a raw record before a record of three criteria, and its
\* report has been returned with the score of the three values
C14Witness ==
    LET c == calls[Main]
    IN  /\ Ended(Main) /\ c.path = <<"report">> /\ c.pc = "returned"
        /\ Len(PreEvals(c)) = 2
        /\ PreEvals(c)[1] = RawRecord(TextNoJson)
        /\ WithoutRaw(PreEvals(c)) = <<ParseAnalysis(TextThree)>>
        /\ c.ret.text = Report(6167)

\* C15: only a score-mode call with a message that is no terminal phrase,
\* and whose evaluation has returned, adds a record, one, to its session; a
\* call in another mode, a score-mode terminal phrase and a call whose
\* evaluation failed leave every evaluation list as it was; a session never
\* has more records than score-mode user turns that are no terminal phrase
RecordsOnlyFromScoredMessages ==
    /\ \A id \in DOMAIN evaluations :
          Len(evaluations[id]) <= tally[id].scored
    /\ \A p \in Procs :
          LET c == calls[p]
              evaluated == /\ c.mode = "score" /\ ~IsTerminal(c.message)
                           /\ Len(c.path) >= 2
          IN  c.op = "generate_response" =>
                /\ \A k \in DOMAIN c.pre_evaluations :
                      k # c.session_id => /\ k \in DOMAIN evaluations
                                          /\ evaluations[k] = c.pre_evaluations[k]
                /\ DOMAIN evaluations = DOMAIN c.pre_evaluations \cup {c.session_id}
                /\ ~evaluated => evaluations[c.session_id] = PreEvals(c)
                /\ evaluated =>
                      /\ Len(evaluations[c.session_id]) = Len(PreEvals(c)) + 1
                      /\ IsPrefix(PreEvals(c), evaluations[c.session_id])
                /\ (c.path = <<"evaluate">> /\ c.pc = "raised") => ~evaluated

\* the evaluation of the second score-mode message of a session has failed:
\* the session has two such user turns and the one record it had
C15Witness ==
    LET c == calls[Main]
    IN  /\ c.op = "generate_response" /\ c.pc = "raised"
        /\ c.path = <<"evaluate">>
        /\ Len(PreEvals(c)) = 1
        /\ evaluations[c.session_id] = PreEvals(c)
        /\ tally[c.session_id].scored = 2

\* C16: a step that keeps a session keeps its turns and its records and at
\* most appends to them: the turn list before the step is a prefix of the one
\* after it, and so is the evaluation list; only clear_session removes a session
ListsOnlyGrow ==
    [][ /\ \A id \in DOMAIN sessions :
              id \in DOMAIN sessions' => IsPrefix(sessions[id], sessions'[id])
        /\ \A id \in DOMAIN evaluations :
              id \in DOMAIN evaluations' =>
                  IsPrefix(evaluations[id], evaluations'[id])
        /\ calls'[Main].op # "clear_session" =>
              /\ DOMAIN sessions \subseteq DOMAIN sessions'
              /\ DOMAIN evaluations \subseteq DOMAIN evaluations'
      ]_vars

\* a session has been through two successful calls and a failed one since it
\* was created, and holds five turns and two records
C16Witness ==
    LET c == calls[Main]
    IN  /\ c.op = "generate_response" /\ c.pc = "raised"
        /\ Len(PreTurns(c)) = 4 /\ Len(sessions[c.session_id]) = 5
        /\ Len(evaluations[c.session_id]) = 2
        /\ tally[c.session_id].ok = 2 /\ tally[c.session_id].failed = 1

\* C17: every stored evaluation record is a mapping, a structured one or the
\* wrapper {raw: text}, whatever the model answered; an answer that is JSON
\* but no object is not stored as it is; the final score computed over the
\* stored records of a session raises nothing
EveryRecordIsAVariant ==
    /\ \A id \in DOMAIN evaluations :
          /\ \A i \in 1..Len(evaluations[id]) : IsMapping(evaluations[id][i])
          /\ ~_generate_final_score(evaluations, id).raised
    /\ \A p \in Procs :
          LET c == calls[p]
          IN  (c.op = "generate_response" /\ Len(c.path) >= 2
                  /\ c.path[1] = "evaluate" /\ json_loads(c.analysis_text).ok
                  /\ Tag(json_loads(c.analysis_text).val) # "obj") =>
                evaluations[c.session_id][Len(PreEvals(c)) + 1] =
                    RawRecord(c.analysis_text)

\* the requests that are between two steps of a call on the session id
Pending(id) == {p \in Procs : InFlight(p) /\ calls[p].session_id = id}

\* C20: with one request at a time, a generate_response adds the user turn
\* of its message and, when it returns, the assistant turn of its answer, and
\* nothing else; every session has a first turn, a user turn, never two
\* assistant turns in a row, and as many turns as twice its calls that
\* returned plus its calls that raised (plus the user turn of the call in
\* progress) since it was created
TurnsCountCalls ==
    /\ \A id \in DOMAIN sessions :
          LET h == sessions[id]
          IN  /\ h # <<>>
              /\ h[1].role = "user"
              /\ \A i \in 1..(Len(h) - 1) :
                    ~(h[i].role = "assistant" /\ h[i + 1].role = "assistant")
              /\ Len(h) = 2 * tally[id].ok + tally[id].failed
                            + Cardinality(Pending(id))
    /\ \A p \in Procs :
          LET c == calls[p]
              user == [role |-> "user", content |-> c.message]
          IN  c.op = "generate_response" =>
                sessions[c.session_id] =
                    IF c.pc = "returned"
                    THEN PreTurns(c) \o
                            <<user, [role |-> "assistant", content |-> c.ret.text]>>
                    ELSE PreTurns(c) \o <<user>>

\* a session has had a call that returned, one that raised and one that
\* returned again since it was created: five turns
C20Witness ==
    LET c == calls[Main]
    IN  /\ c.op = "generate_response" /\ c.pc = "returned"
        /\ tally[c.session_id] = [scored |-> 2, ok |-> 2, failed |-> 1]
        /\ Len(sessions[c.session_id]) = 5
        /\ sessions[c.session_id][3].role = "user"
        /\ sessions[c.session_id][4].role = "user"
        /\ Pending(c.session_id) = {}

\* the turn of a message of the user, and the last element of a list
UserTurn(c) == [role |-> "user", content |-> c.message]
Last(s) == s[Len(s)]

\* what the step of thread p, from call record c to d, may do to the session
\* of its identifier when nothing else works on it: a clear_session removes
\* it, the first step of a generate_response adds the user turn to what the
\* session held, and a later step finds the session as the call left it and
\* adds the record of the evaluation or the assistant turn of the answer
StepAlone(c, d) ==
    LET id == d.session_id
    IN  IF d.op = "clear_session"
        THEN id \notin DOMAIN sessions' /\ id \notin DOMAIN evaluations'
        ELSE IF c.pc \notin {"evaluate", "generate"}
        THEN /\ sessions'[id] = Get(sessions, id, <<>>) \o <<UserTurn(d)>>
             /\ evaluations'[id] = Get(evaluations, id, <<>>)
        ELSE /\ d.cause # KeyError
             /\ id \in DOMAIN sessions /\ id \in DOMAIN evaluations
             /\ sessions[id] = PreTurns(c) \o <<UserTurn(c)>>
             /\ IsPrefix(PreEvals(c), evaluations[id])
             /\ Len(evaluations[id]) =
                   Len(PreEvals(c)) + (IF c.pc = "generate" THEN 1 ELSE 0)
             /\ sessions'[id] =
                   IF d.pc = "returned"
                   THEN sessions[id] \o
                           <<[role |-> "assistant", content |-> d.ret.text]>>
                   ELSE sessions[id]
             /\ evaluations'[id] =
                   IF c.pc = "evaluate" /\ d.path = <<"evaluate", "generate">>
                   THEN Append(evaluations[id], ParseAnalysis(d.analysis_text))
                   ELSE evaluations[id]
             /\ d.pc = "generate" /\ c.pc = "evaluate" =>
                   d.context = _build_context(
                       [x \in {id} |-> PreTurns(c) \o <<UserTurn(c)>>], id)

\* C18: as long as no request has begun on an identifier that another one
\* was working on, a step of a request on one identifier leaves the turns
\* and the evaluations of every other identifier as they were, and does to
\* its own session what it would do if its requests ran alone
DistinctSessionsDoNotInterfere ==
    [][ ~overlapped' =>
          \A p \in Procs :
              calls'[p] # calls[p] =>
                /\ \A k \in (DOMAIN sessions \cup DOMAIN sessions')
                               \ {calls'[p].session_id} :
                      /\ k \in DOMAIN sessions /\ k \in DOMAIN sessions'
                      /\ sessions'[k] = sessions[k]
                      /\ evaluations'[k] = evaluations[k]
                /\ StepAlone(calls[p], calls'[p])
      ]_vars

\* two requests on two identifiers have both returned; the second began on
\* a new session while the first was waiting for the model, and no
\* identifier has had two requests at work at once
C18Witness ==
    LET c == calls[1]
        d == calls[2]
    IN  /\ ~overlapped
        /\ c.op = "generate_response" /\ c.pc = "returned"
        /\ d.op = "generate_response" /\ d.pc = "returned"
        /\ c.session_id # d.session_id
        /\ PreTurns(c) # <<>> /\ PreEvals(c) # <<>>
        /\ c.session_id \in DOMAIN d.pre_sessions
        /\ d.pre_sessions[c.session_id] = PreTurns(c) \o <<UserTurn(c)>>
        /\ d.session_id \notin DOMAIN c.pre_sessions
        /\ sessions[c.session_id] = PreTurns(c) \o
              <<UserTurn(c), [role |-> "assistant", content |-> c.ret.text]>>
        /\ Len(evaluations[c.session_id]) = Len(PreEvals(c)) + 1
        /\ Len(sessions[d.session_id]) = 2

\* the step of thread p ends its call in a way no call ends when the
\* requests on its identifier run one after the other: it fails because the
\* session is gone, or it appends its assistant turn to a session that does
\* not hold its user turn where the call put it, or directly after another
\* assistant turn
RaceOutcome(p) ==
    LET c  == calls[p]
        d  == calls'[p]
        id == c.session_id
    IN  /\ InFlight(p) /\ d # c
        /\ \/ d.pc = "raised" /\ d.cause = KeyError
           \/ /\ d.pc = "returned"
              /\ Len(sessions'[id]) = Len(sessions[id]) + 1
              /\ \/ ~IsPrefix(PreTurns(c) \o <<UserTurn(c)>>, sessions[id])
                 \/ Last(sessions[id]).role = "assistant"

\* the three outcomes, as the state shows them
FailedOnRemovedSession(p) ==
    calls[p].pc = "raised" /\ calls[p].cause = KeyError
AdjacentAssistantTurns(id) ==
    \E i \in 1..(Len(sessions[id]) - 1) :
        sessions[id][i].role = "assistant" /\ sessions[id][i + 1].role = "assistant"
MoreAnswersThanMessages(id) ==
    Cardinality({i \in DOMAIN sessions[id] : sessions[id][i].role = "assistant"})
        > Cardinality({i \in DOMAIN sessions[id] : sessions[id][i].role = "user"})

\* C19: a call that fails on a removed session, an assistant turn appended
\* to a session without its user turn and two assistant turns in a row come
\* about only after a clear_session or a generate_response has begun on an
\* identifier that a generate_response was working on; requests that run
\* one after the other on each identifier never show them
RaceOutcomesNeedOverlap ==
    /\ [][ \A p \in Procs : RaceOutcome(p) => overlapped ]_vars
    /\ [](~overlapped =>
            /\ \A p \in Procs : ~FailedOnRemovedSession(p)
            /\ \A id \in DOMAIN sessions :
                  ~AdjacentAssistantTurns(id) /\ ~MoreAnswersThanMessages(id))

\* the three outcomes in one state: a session cleared and begun again under
\* a waiting call holds one user turn and the answers of both calls after
\* it, and a later call has failed on a session cleared under it
C19Witness ==
    /\ overlapped
    /\ \E p \in Procs : FailedOnRemovedSession(p)
    /\ \E id \in DOMAIN sessions :
          /\ Len(sessions[id]) = 3
          /\ sessions[id][1].role = "user"
          /\ AdjacentAssistantTurns(id)
          /\ MoreAnswersThanMessages(id)

====
